---- MODULE Spec2Model ----
(***************************************************************************)
(* A model of the Task Management API of src/main.py: the in-memory store  *)
(* tasks_db, the request models (CreateTask, UpdateTask, Task) and the     *)
(* handlers create_task, list_tasks, get_task, update_task, delete_task,   *)
(* get_stats, health and root.                                             *)
(*                                                                         *)
(* Values.  A Python str is <<"str", text, n>>: the string called text, of *)
(* n characters (only the length of a title or description is ever         *)
(* inspected by the code, and only the text of a status).  None is         *)
(* <<"None">>.  A member of the enum TaskStatus is <<"TaskStatus", value>>.*)
(* A JSON request body is a function from the keys it holds to their       *)
(* values, so that "the fields that were set" is its DOMAIN.               *)
(*                                                                         *)
(* tasks_db is a Python dict: it iterates in insertion order, assignment   *)
(* to an existing key keeps the key's position, del removes it.  It is     *)
(* modelled as the sequence of its values in iteration order.              *)
(***************************************************************************)
EXTENDS Integers, Sequences, FiniteSets, TLC

VARIABLES tasks_db, clock, uuids, deleted, inflight, running

vars == <<tasks_db, clock, uuids, deleted, inflight, running>>

\* a slot of the server that holds no request
Idle == [pc |-> "idle"]

(* ------------------------------ bounds --------------------------------- *)

\* uuid4() is called at most MaxCreates times
MaxCreates == 2

\* datetime.now() returns values in 0..MaxClock
MaxClock == 1

\* at most MaxInFlight requests are being served at once (SpecConc)
MaxInFlight == 2

(* ------------------------------ values --------------------------------- *)

None == <<"None">>

Str(text, n) == <<"str", text, n>>

IsStr(v) == v[1] = "str"

PyLen(v) == v[3]

TitleMinLength == 1

TitleMaxLength == 200

DescriptionMaxLength == 1000

LimitMin == 1

LimitMax == 100

LimitDefault == 10

OffsetMin == 0

StatusValues == {"pending", "in_progress", "completed"}

TaskStatus(value) == <<"TaskStatus", value>>

PENDING == TaskStatus("pending")

IN_PROGRESS == TaskStatus("in_progress")

COMPLETED == TaskStatus("completed")

TaskStatusMembers == {PENDING, IN_PROGRESS, COMPLETED}

\* pydantic's conversion of a JSON value to a TaskStatus: only a string whose
\* text is one of the enum's values converts
IsTaskStatusValue(v) == IsStr(v) /\ v[2] \in StatusValues

ToTaskStatus(v) == TaskStatus(v[2])

Min(a, b) == IF a <= b THEN a ELSE b

(* --------------------------- request models ---------------------------- *)

Fields == {"title", "description", "status"}

\* Field(..., min_length=1, max_length=200) of a str
TitleOk(v) == IsStr(v) /\ PyLen(v) >= TitleMinLength /\ PyLen(v) <= TitleMaxLength

\* Field(None, max_length=1000) of an Optional[str]
DescriptionOk(v) == v = None \/ (IsStr(v) /\ PyLen(v) <= DescriptionMaxLength)

\* TaskBase: title is required and a str, description is Optional, status is
\* a TaskStatus (null is not one)
TaskBase(body) ==
    /\ "title" \in DOMAIN body
    /\ TitleOk(body["title"])
    /\ ("description" \in DOMAIN body => DescriptionOk(body["description"]))
    /\ ("status" \in DOMAIN body => IsTaskStatusValue(body["status"]))

\* CreateTask with a status field that defaults to None
CreateTask_status_defaults_to_None(body) ==
    [title |-> body["title"],
     description |-> IF "description" \in DOMAIN body THEN body["description"] ELSE None,
     status |-> IF "status" \in DOMAIN body THEN ToTaskStatus(body["status"]) ELSE None]

\* CreateTask(**body).model_dump(): every field, defaults filled in
CreateTask(body) ==
    [title |-> body["title"],
     description |-> IF "description" \in DOMAIN body THEN body["description"] ELSE None,
     status |-> IF "status" \in DOMAIN body THEN ToTaskStatus(body["status"]) ELSE PENDING]

\* UpdateTask: every field Optional, so null passes for each of them; the
\* length constraints apply to a str only
UpdateTask(body) ==
    /\ ("title" \in DOMAIN body => body["title"] = None \/ TitleOk(body["title"]))
    /\ ("description" \in DOMAIN body => DescriptionOk(body["description"]))
    /\ ("status" \in DOMAIN body =>
            body["status"] = None \/ IsTaskStatusValue(body["status"]))

\* model_dump() without exclude_unset: every field, None for the ones not set
model_dump_all(body) ==
    [f \in Fields |->
        IF f \notin DOMAIN body THEN None
        ELSE IF f = "status" /\ body[f] # None THEN ToTaskStatus(body[f]) ELSE body[f]]

\* UpdateTask(**body).model_dump(exclude_unset=True): the fields the body set
model_dump_exclude_unset(body) ==
    [f \in DOMAIN body |->
        IF f = "status" /\ body[f] # None THEN ToTaskStatus(body[f]) ELSE body[f]]

\* Task(**dump): id, created_at and updated_at come from their default
\* factories, called in the order the fields are declared
Task(dump, uid, t1, t2) ==
    [id |-> uid, title |-> dump.title, description |-> dump.description,
     status |-> dump.status, created_at |-> t1, updated_at |-> t2]

\* Query(10, ge=1, le=100) and Query(0, ge=0)
QueryOk(status, limit, offset) ==
    /\ status = None \/ IsTaskStatusValue(status)
    /\ limit >= LimitMin /\ limit <= LimitMax
    /\ offset >= OffsetMin

(* ------------------------------ the dict ------------------------------- *)

Keys(db) == {db[i].id : i \in 1..Len(db)}

IndexOf(db, task_id) == CHOOSE i \in 1..Len(db) : db[i].id = task_id

\* tasks_db[task_id]
GetItem(db, task_id) == db[IndexOf(db, task_id)]

\* tasks_db[task_id] = task: a new key goes last, an old one keeps its place
SetItem(db, task_id, task) ==
    IF task_id \in Keys(db)
    THEN [db EXCEPT ![IndexOf(db, task_id)] = task]
    ELSE Append(db, task)

\* a del that removes the first key of the dict
DelItem_first(db, task_id) == Tail(db)

\* del tasks_db[task_id]
DelItem(db, task_id) ==
    LET i == IndexOf(db, task_id)
    IN  SubSeq(db, 1, i - 1) \o SubSeq(db, i + 1, Len(db))

(* ------------------------------ handlers ------------------------------- *)

NotFound(task_id) == <<"not found", task_id>>

Reply(db, code, body) == [db |-> db, code |-> code, body |-> body]

root == [message |-> "Welcome to Task Management API", version |-> "1.0.1",
         docs |-> "/docs", status |-> "ok"]

health(db) == [status |-> "healthy", tasks_count |-> Len(db)]

create_task(db, task, uid, t1, t2) ==
    LET new_task == Task(task, uid, t1, t2)
    IN  Reply(SetItem(db, new_task.id, new_task), 201, new_task)

get_task(db, task_id) ==
    IF task_id \notin Keys(db)
    THEN Reply(db, 404, NotFound(task_id))
    ELSE Reply(db, 200, GetItem(db, task_id))

\* for field, value in update_data.items(): setattr(stored_task, field, value)
\* (assignment to a field of a pydantic model is not validated)
SetAttrs(stored_task, update_data) ==
    [f \in DOMAIN stored_task |->
        IF f \in DOMAIN update_data THEN update_data[f] ELSE stored_task[f]]

\* an update_task that refreshes created_at along with updated_at
update_task_refreshes_created_at(db, task_id, update_data, now) ==
    IF task_id \notin Keys(db)
    THEN Reply(db, 404, NotFound(task_id))
    ELSE LET stored_task == [SetAttrs(GetItem(db, task_id), update_data)
                                EXCEPT !.updated_at = now, !.created_at = now]
         IN  Reply(SetItem(db, task_id, stored_task), 200, stored_task)

update_task(db, task_id, update_data, now) ==
    IF task_id \notin Keys(db)
    THEN Reply(db, 404, NotFound(task_id))
    ELSE LET stored_task == [SetAttrs(GetItem(db, task_id), update_data)
                                EXCEPT !.updated_at = now]
         IN  Reply(SetItem(db, task_id, stored_task), 200, stored_task)

\* a delete_task that answers 204 without the del
delete_task_without_del(db, task_id) ==
    IF task_id \notin Keys(db)
    THEN Reply(db, 404, NotFound(task_id))
    ELSE Reply(db, 204, None)

delete_task(db, task_id) ==
    IF task_id \notin Keys(db)
    THEN Reply(db, 404, NotFound(task_id))
    ELSE Reply(DelItem(db, task_id), 204, None)

\* list.sort(key=created_at): oldest first, records with equal created_at in
\* the order they had
RECURSIVE InsertOldestFirst(_, _)
InsertOldestFirst(sorted, x) ==
    IF sorted = <<>> THEN <<x>>
    ELSE IF Head(sorted).created_at <= x.created_at
         THEN <<Head(sorted)>> \o InsertOldestFirst(Tail(sorted), x)
         ELSE <<x>> \o sorted

RECURSIVE SortOldestFirst(_)
SortOldestFirst(tasks) ==
    IF tasks = <<>> THEN <<>>
    ELSE InsertOldestFirst(SortOldestFirst(SubSeq(tasks, 1, Len(tasks) - 1)),
                           tasks[Len(tasks)])

\* sorted(all_tasks, key=created_at)[::-1]: newest first, records with equal
\* created_at in the reverse of the order they had
SortOldestFirstReversed(tasks) ==
    LET sorted == SortOldestFirst(tasks)
    IN  [k \in 1..Len(sorted) |-> sorted[Len(sorted) + 1 - k]]

\* list.sort(key=created_at, reverse=True): stable, so records with equal
\* created_at keep the order they had; InsertNewestFirst puts x behind every
\* record that is not older than x
RECURSIVE InsertNewestFirst(_, _)
InsertNewestFirst(sorted, x) ==
    IF sorted = <<>> THEN <<x>>
    ELSE IF Head(sorted).created_at >= x.created_at
         THEN <<Head(sorted)>> \o InsertNewestFirst(Tail(sorted), x)
         ELSE <<x>> \o sorted

RECURSIVE SortNewestFirst(_)
SortNewestFirst(tasks) ==
    IF tasks = <<>> THEN <<>>
    ELSE InsertNewestFirst(SortNewestFirst(SubSeq(tasks, 1, Len(tasks) - 1)),
                           tasks[Len(tasks)])

\* [task for task in all_tasks if task.status == status]
RECURSIVE FilterStatus(_, _)
FilterStatus(tasks, status) ==
    IF tasks = <<>> THEN <<>>
    ELSE (IF Head(tasks).status = status THEN <<Head(tasks)>> ELSE <<>>)
            \o FilterStatus(Tail(tasks), status)

\* all_tasks[offset:offset + limit], for 0 <= offset and 0 < limit
Slice(tasks, offset, limit) ==
    SubSeq(tasks, offset + 1, Min(offset + limit, Len(tasks)))

\* status is None or a TaskStatus; every TaskStatus is a non-empty str, so
\* "if status:" is "status is not None"
list_tasks(db, status, limit, offset) ==
    LET all_tasks == IF status # None THEN FilterStatus(db, status) ELSE db
    IN  Reply(db, 200, Slice(SortNewestFirst(all_tasks), offset, limit))

\* for task in tasks_db.values(): stats["by_status"][task.status] += 1
\* A status that is not one of the three keys raises KeyError, which ends the
\* loop
RECURSIVE Tally(_, _)
Tally(tasks, by_status) ==
    IF tasks = <<>> THEN [raised |-> FALSE, by_status |-> by_status]
    ELSE IF Head(tasks).status \notin DOMAIN by_status
         THEN [raised |-> TRUE, by_status |-> by_status]
         ELSE Tally(Tail(tasks),
                    [by_status EXCEPT ![Head(tasks).status] = @ + 1])

InternalServerError == "Internal Server Error"

\* an exception that leaves a handler is answered 500 by the framework
get_stats(db) ==
    LET total == Len(db)
    IN  IF total = 0
        THEN Reply(db, 200, [total |-> 0, by_status |-> <<>>, message |-> "No tasks yet"])
        ELSE LET t == Tally(db, [s \in TaskStatusMembers |-> 0])
             IN  IF t.raised
                 THEN Reply(db, 500, InternalServerError)
                 ELSE Reply(db, 200, [total |-> total, by_status |-> t.by_status])

(* ------------------------------ requests ------------------------------- *)

\* a key the request body does not hold
Unset == <<"unset">>

\* the JSON object that holds the keys whose value is not Unset
Body(t, d, s) ==
    LET v == [title |-> t, description |-> d, status |-> s]
    IN  [f \in {g \in Fields : v[g] # Unset} |-> v[f]]

TooShortTitle == Str("", TitleMinLength - 1)

ShortestTitle == Str("a", TitleMinLength)

LongestTitle == Str("T", TitleMaxLength)

TooLongTitle == Str("L", TitleMaxLength + 1)

LongestDescription == Str("d", DescriptionMaxLength)

TooLongDescription == Str("D", DescriptionMaxLength + 1)

\* bodies of POST /tasks.  The valid ones hold the shortest title, the
\* longest description or none, and no status or in_progress; the valid
\* bodies of PUT hold other titles and statuses, so that a stored value tells
\* which of the two wrote it
CreateBodies ==
    {Body(ShortestTitle, d, s) : d \in {Unset, LongestDescription},
                                 s \in {Unset, Str("in_progress", 11)}}
    \cup {Body(t, Unset, Unset) : t \in {Unset, None, TooShortTitle, TooLongTitle}}
    \cup {Body(ShortestTitle, TooLongDescription, Unset),
          Body(ShortestTitle, None, Str("pending", 7)),
          Body(ShortestTitle, Unset, None),
          Body(ShortestTitle, Unset, Str("done", 4))}

\* bodies of PUT /tasks/{task_id}
UpdateBodies ==
    {Body(t, d, s) : t \in {Unset, None, LongestTitle},
                     d \in {Unset, None, LongestDescription},
                     s \in {Unset, None, Str("completed", 9)}}
    \cup {Body(t, Unset, Unset) : t \in {TooShortTitle, TooLongTitle}}
    \cup {Body(Unset, TooLongDescription, Unset), Body(Unset, Unset, Str("done", 4))}

\* path parameters: every id uuid4() can have issued
TaskIds == 1..MaxCreates

StatusQueries == {None, Str("pending", 7), Str("in_progress", 11),
                  Str("completed", 9), Str("done", 4)}

LimitQueries == {LimitMin - 1, LimitMin, 2, LimitDefault, LimitMax, LimitMax + 1}

OffsetQueries == {OffsetMin - 1, OffsetMin, 1, 2}

\* what datetime.now() can return next, on a clock that stops at max
Now(max) == clock..max

ValidationError == "validation error"

(* ----------------------------- endpoints ------------------------------- *)
\* The framework validates the body or the query against the handler's
\* parameter types and answers 422 without calling the handler when that
\* fails.

\* POST /tasks
post_tasks(db, body, uid, t1, t2) ==
    IF ~TaskBase(body) THEN Reply(db, 422, ValidationError)
    ELSE create_task(db, CreateTask(body), uid, t1, t2)

\* GET /tasks
get_tasks(db, status, limit, offset) ==
    IF ~QueryOk(status, limit, offset) THEN Reply(db, 422, ValidationError)
    ELSE list_tasks(db, IF status = None THEN None ELSE ToTaskStatus(status),
                    limit, offset)

\* PUT /tasks/{task_id}
put_task(db, task_id, body, now) ==
    IF ~UpdateTask(body) THEN Reply(db, 422, ValidationError)
    ELSE update_task(db, task_id, model_dump_exclude_unset(body), now)

(* ------------------------ one request at a time ----------------------- *)

Init ==
    /\ tasks_db = <<>>
    /\ clock = 0
    /\ uuids = 0
    /\ deleted = {}
    /\ inflight = [s \in 1..MaxInFlight |-> Idle]
    /\ running = 0

\* GET /
GetRoot ==
    /\ root.status = "ok"
    /\ UNCHANGED vars

\* GET /health
GetHealth ==
    /\ health(tasks_db).status = "healthy"
    /\ UNCHANGED vars

\* POST /tasks: the handler reads uuid4() once and datetime.now() twice
Post(bodies, maxCreates, maxClock) ==
    \E body \in bodies : \E t1 \in Now(maxClock) : \E t2 \in t1..maxClock :
        LET r == post_tasks(tasks_db, body, uuids + 1, t1, t2)
        IN  /\ r.code = 201 => uuids < maxCreates
            /\ tasks_db' = r.db
            /\ clock' = IF r.code = 201 THEN t2 ELSE clock
            /\ uuids' = IF r.code = 201 THEN uuids + 1 ELSE uuids
            /\ UNCHANGED <<deleted, inflight, running>>

\* GET /tasks
List(statuses, limits, offsets) ==
    \E status \in statuses, limit \in limits, offset \in offsets :
        /\ tasks_db' = get_tasks(tasks_db, status, limit, offset).db
        /\ UNCHANGED <<clock, uuids, deleted, inflight, running>>

\* GET /tasks/{task_id}
Get(ids) ==
    \E task_id \in ids :
        /\ tasks_db' = get_task(tasks_db, task_id).db
        /\ UNCHANGED <<clock, uuids, deleted, inflight, running>>

\* PUT /tasks/{task_id}: datetime.now() is read only when the task is there
Put(ids, bodies, maxClock) ==
    \E task_id \in ids, body \in bodies : \E now \in Now(maxClock) :
        LET r == put_task(tasks_db, task_id, body, now)
        IN  /\ tasks_db' = r.db
            /\ clock' = IF r.code = 200 THEN now ELSE clock
            /\ UNCHANGED <<uuids, deleted, inflight, running>>

\* DELETE /tasks/{task_id}; deleted records the ids whose DELETE was answered 204
Delete(ids) ==
    \E task_id \in ids :
        LET r == delete_task(tasks_db, task_id)
        IN  /\ tasks_db' = r.db
            /\ deleted' = IF r.code = 204 THEN deleted \cup {task_id} ELSE deleted
            /\ UNCHANGED <<clock, uuids, inflight, running>>

\* GET /tasks/stats/summary
GetStatsSummary ==
    /\ tasks_db' = get_stats(tasks_db).db
    /\ UNCHANGED <<clock, uuids, deleted, inflight, running>>

(* Spec: every kind of body, at most MaxCreates tasks *)

PostTasks == Post(CreateBodies, MaxCreates, MaxClock)

GetTasks == List(StatusQueries, LimitQueries, OffsetQueries)

GetTask == Get(TaskIds)

PutTask == Put(TaskIds, UpdateBodies, MaxClock)

DeleteTask == Delete(TaskIds)

Next ==
    \/ GetRoot
    \/ GetHealth
    \/ PostTasks
    \/ GetTasks
    \/ GetTask
    \/ PutTask
    \/ DeleteTask
    \/ GetStatsSummary

Spec == Init /\ [][Next]_vars

(* SpecList: more tasks and a longer clock, bodies that differ in status only *)

\* uuid4() is called at most MaxListCreates times in SpecList
MaxListCreates == 3

\* datetime.now() returns values in 0..MaxListClock in SpecList
MaxListClock == 2

ListCreateBodies == {Body(ShortestTitle, Unset, Unset), Body(TooLongTitle, Unset, Unset)}

ListUpdateBodies == {Body(Unset, Unset, Str("completed", 9)),
                     Body(Unset, TooLongDescription, Unset)}

ListTaskIds == 1..MaxListCreates

ListPostTasks == Post(ListCreateBodies, MaxListCreates, MaxListClock)

ListGetTasks ==
    List({None, Str("completed", 9)}, {LimitMin - 1, LimitMin, LimitMax}, {OffsetMin, 1})

ListGetTask == Get(ListTaskIds)

ListPutTask == Put(ListTaskIds, ListUpdateBodies, MaxListClock)

ListDeleteTask == Delete(ListTaskIds)

NextList ==
    \/ GetRoot
    \/ GetHealth
    \/ ListPostTasks
    \/ ListGetTasks
    \/ ListGetTask
    \/ ListPutTask
    \/ ListDeleteTask
    \/ GetStatsSummary

SpecList == Init /\ [][NextList]_vars

(* --------------------- requests in flight: SpecConc -------------------- *)
(* uvicorn.run(app) serves every request on one event loop.  A handler is a *)
(* coroutine: once the loop resumes it, it runs until it awaits or returns, *)
(* and only then can the loop resume another one.  The handlers are modelled*)
(* statement by statement; running is the slot whose handler holds the loop *)
(* (0: none), and Yields tells where a handler awaits.                      *)

\* handlers that await between the existence check and what follows it
YieldsAfterCheck(op, point) == point = "check"

\* the points inside a handler where it awaits: create_task, update_task and
\* delete_task hold no await, async with or async for
Yields(op, point) == FALSE

Slots == 1..MaxInFlight

\* uuid4() is called at most MaxConcCreates times in SpecConc
MaxConcCreates == 1

\* datetime.now() returns values in 0..MaxConcClock in SpecConc
MaxConcClock == 0

ConcTaskIds == 1..MaxConcCreates

ConcCreateBodies == {Body(ShortestTitle, Unset, Unset)}

ConcUpdateBodies == {Body(LongestTitle, Unset, Unset), Body(Unset, Unset, Str("completed", 9))}

Request(op, task_id, body) ==
    [pc |-> "ready", op |-> op, task_id |-> task_id, body |-> body,
     seen |-> <<>>, local |-> None]

ConcRequests ==
    {Request("create_task", 0, body) : body \in ConcCreateBodies}
    \cup {Request("update_task", task_id, model_dump_exclude_unset(body)) :
            task_id \in ConcTaskIds, body \in ConcUpdateBodies}
    \cup {Request("delete_task", task_id, <<>>) : task_id \in ConcTaskIds}

\* the loop is free for slot s: no handler holds it, or the one of s does
CanRun(s) == running \in {0, s}

\* after a statement at the given point the handler of s keeps the loop
\* unless it awaits there
Holds(s, op, point) == IF Yields(op, point) THEN 0 ELSE s

\* the handler of s has returned or raised: what is left is its status code
Finish(s, code) == [inflight EXCEPT ![s] = [pc |-> "done", code |-> code]]

\* a request has arrived and its body is parsed and validated; its handler
\* is ready to be called
Arrive(s) ==
    /\ running = 0
    /\ inflight[s] = Idle
    /\ \E req \in ConcRequests : inflight' = [inflight EXCEPT ![s] = req]
    /\ UNCHANGED <<tasks_db, clock, uuids, deleted, running>>

\* create_task, line 82: new_task = Task(**task.model_dump())
CreateNew(s) ==
    /\ CanRun(s)
    /\ inflight[s].pc = "ready" /\ inflight[s].op = "create_task"
    /\ uuids < MaxConcCreates
    /\ \E t1 \in Now(MaxConcClock) : \E t2 \in t1..MaxConcClock :
          /\ inflight' = [inflight EXCEPT ![s] =
                [@ EXCEPT !.pc = "insert", !.seen = tasks_db,
                          !.local = Task(CreateTask(inflight[s].body), uuids + 1, t1, t2)]]
          /\ clock' = t2
    /\ uuids' = uuids + 1
    /\ running' = Holds(s, "create_task", "new")
    /\ UNCHANGED <<tasks_db, deleted>>

\* create_task, lines 83-84: tasks_db[new_task.id] = new_task; return new_task
CreateInsert(s) ==
    /\ CanRun(s)
    /\ inflight[s].pc = "insert"
    /\ tasks_db' = SetItem(tasks_db, inflight[s].local.id, inflight[s].local)
    /\ inflight' = Finish(s, 201)
    /\ running' = 0
    /\ UNCHANGED <<clock, uuids, deleted>>

\* update_task and delete_task, the existence check: lines 118-119, 136-137
Check(s) ==
    /\ CanRun(s)
    /\ inflight[s].pc = "ready" /\ inflight[s].op \in {"update_task", "delete_task"}
    /\ IF inflight[s].task_id \notin Keys(tasks_db)
       THEN /\ inflight' = Finish(s, 404)
            /\ running' = 0
       ELSE /\ inflight' = [inflight EXCEPT ![s] = [@ EXCEPT !.pc = "checked",
                                                             !.seen = tasks_db]]
            /\ running' = Holds(s, inflight[s].op, "check")
    /\ UNCHANGED <<tasks_db, clock, uuids, deleted>>

\* update_task, line 121: stored_task = tasks_db[task_id], a KeyError (500)
\* when the key is gone; local is the object read
UpdateRead(s) ==
    /\ CanRun(s)
    /\ inflight[s].pc = "checked" /\ inflight[s].op = "update_task"
    /\ IF inflight[s].task_id \notin Keys(tasks_db)
       THEN /\ inflight' = Finish(s, 500)
            /\ running' = 0
       ELSE /\ inflight' = [inflight EXCEPT ![s] =
                    [@ EXCEPT !.pc = "read",
                              !.local = GetItem(tasks_db, inflight[s].task_id)]]
            /\ running' = Holds(s, "update_task", "read")
    /\ UNCHANGED <<tasks_db, clock, uuids, deleted>>

\* update_task, lines 122-130: the setattr loop, updated_at, the assignment to
\* tasks_db[task_id] and the return.  stored_task is the object the dict
\* holds under task_id while the key is there, and the object as it was read
\* once the key was deleted
UpdateWrite(s) ==
    /\ CanRun(s)
    /\ inflight[s].pc = "read"
    /\ \E now \in Now(MaxConcClock) :
          LET task_id == inflight[s].task_id
              object == IF task_id \in Keys(tasks_db) THEN GetItem(tasks_db, task_id)
                        ELSE inflight[s].local
              stored_task == [SetAttrs(object, inflight[s].body) EXCEPT !.updated_at = now]
          IN  /\ tasks_db' = SetItem(tasks_db, task_id, stored_task)
              /\ clock' = now
    /\ inflight' = Finish(s, 200)
    /\ running' = 0
    /\ UNCHANGED <<uuids, deleted>>

\* delete_task, lines 139-140: del tasks_db[task_id], a KeyError (500) when
\* the key is gone
DeleteDel(s) ==
    /\ CanRun(s)
    /\ inflight[s].pc = "checked" /\ inflight[s].op = "delete_task"
    /\ IF inflight[s].task_id \notin Keys(tasks_db)
       THEN /\ inflight' = Finish(s, 500)
            /\ UNCHANGED <<tasks_db, deleted>>
       ELSE /\ tasks_db' = DelItem(tasks_db, inflight[s].task_id)
            /\ deleted' = deleted \cup {inflight[s].task_id}
            /\ inflight' = Finish(s, 204)
    /\ running' = 0
    /\ UNCHANGED <<clock, uuids>>

\* the response has been sent
Respond(s) ==
    /\ running = 0
    /\ inflight[s].pc = "done"
    /\ inflight' = [inflight EXCEPT ![s] = Idle]
    /\ UNCHANGED <<tasks_db, clock, uuids, deleted, running>>

NextConc ==
    \E s \in Slots :
        \/ Arrive(s)
        \/ CreateNew(s)
        \/ CreateInsert(s)
        \/ Check(s)
        \/ UpdateRead(s)
        \/ UpdateWrite(s)
        \/ DeleteDel(s)
        \/ Respond(s)

SpecConc == Init /\ [][NextConc]_vars

(* ------------------------------- claims -------------------------------- *)

ValidUpdateBodies == {body \in UpdateBodies : UpdateTask(body)}

ValidCreateBodies == {body \in CreateBodies : TaskBase(body)}

\* the value a body's field takes in the stored record
Supplied(body, f) ==
    IF f = "status" /\ body[f] # None THEN TaskStatus(body[f][2]) ELSE body[f]

\* C1: every record held in the store has a title of 1 to 200 characters and
\* a description that is absent (None) or of at most 1000 characters.
C1_StoredRecordsKeepConstraints ==
    \A i \in 1..Len(tasks_db) :
        /\ IsStr(tasks_db[i].title)
        /\ PyLen(tasks_db[i].title) \in 1..200
        /\ \/ tasks_db[i].description = None
           \/ IsStr(tasks_db[i].description) /\ PyLen(tasks_db[i].description) <= 1000

\* C2: an accepted Update of a stored task leaves every other record as it
\* was, and in the record with the given id it changes only the fields the
\* body supplies and updated_at: id, created_at and every field the body does
\* not hold keep their values, every field it holds takes the supplied value.
C2_UpdateMergesOnlySupplied ==
    \A i \in 1..Len(tasks_db) : \A body \in UpdateBodies : \A now \in Now(MaxClock) :
        LET old == tasks_db[i]
            r == put_task(tasks_db, old.id, body, now)
        IN  r.code # 422 =>
                /\ r.code = 200
                /\ Len(r.db) = Len(tasks_db)
                /\ \A j \in 1..Len(tasks_db) : j # i => r.db[j] = tasks_db[j]
                /\ r.db[i].id = old.id
                /\ r.db[i].created_at = old.created_at
                /\ r.db[i].updated_at = now
                /\ \A f \in Fields :
                        r.db[i][f] = IF f \in DOMAIN body THEN Supplied(body, f) ELSE old[f]
                /\ r.body = r.db[i]

\* an update that supplied only status = completed has acted on a task whose
\* title and description are the ones it was created with
C2_Witness ==
    \E i \in 1..Len(tasks_db) :
        /\ tasks_db[i].status = COMPLETED
        /\ tasks_db[i].updated_at > tasks_db[i].created_at
        /\ tasks_db[i].title = ShortestTitle
        /\ tasks_db[i].description = LongestDescription
        /\ Len(tasks_db) = 2

C3_UpdatedNotBeforeCreated ==
    \A i \in 1..Len(tasks_db) : tasks_db[i].updated_at >= tasks_db[i].created_at

C3_CreatedAtKept ==
    \A i \in 1..Len(tasks_db) : \A j \in 1..Len(tasks_db') :
        tasks_db[i].id = tasks_db'[j].id => tasks_db[i].created_at = tasks_db'[j].created_at

\* C3: on a clock that never goes backwards, updated_at is never earlier
\* than created_at, and no step changes the created_at of a task that is in
\* the store before and after it.
C3_Timestamps == []C3_UpdatedNotBeforeCreated /\ [][C3_CreatedAtKept]_vars

\* a task created at 0 was updated at 2, after a second task was created at 1
C3_Witness ==
    /\ Len(tasks_db) = 2
    /\ tasks_db[1].created_at = 0 /\ tasks_db[1].updated_at = 2
    /\ tasks_db[1].status = COMPLETED
    /\ tasks_db[2].created_at = 1 /\ tasks_db[2].updated_at = 1

\* C4: once a Delete of an id was answered 204, the id is not in the store,
\* Get and Delete of it are answered 404, and every accepted Update of it is
\* answered 404 and leaves the store as it is.
C4_DeletedStaysNotFound ==
    \A task_id \in deleted :
        /\ task_id \notin Keys(tasks_db)
        /\ get_task(tasks_db, task_id).code = 404
        /\ delete_task(tasks_db, task_id).code = 404
        /\ \A body \in ValidUpdateBodies : \A now \in Now(MaxListClock) :
              LET r == put_task(tasks_db, task_id, body, now)
              IN  r.code = 404 /\ r.db = tasks_db

\* tasks 1 and 2 were deleted; task 3, created after both, was updated
C4_Witness ==
    /\ deleted = {1, 2}
    /\ Keys(tasks_db) = {3}
    /\ tasks_db[1].status = COMPLETED

\* the stored records a status query selects
Matching(db, status) ==
    {i \in 1..Len(db) : status = None \/ db[i].status = TaskStatus(status[2])}

\* C6: Stats is answered 200 with total the number of stored records; for a
\* non-empty store by_status counts the records of each of the three
\* statuses, the counts adding up to total; for the empty store it is total
\* 0, an empty by_status and the message "No tasks yet".
C6_StatsCounts ==
    LET r == get_stats(tasks_db)
    IN  /\ r.code = 200
        /\ r.body.total = Len(tasks_db)
        /\ Len(tasks_db) = 0 =>
              r.body = [total |-> 0, by_status |-> <<>>, message |-> "No tasks yet"]
        /\ Len(tasks_db) > 0 =>
              /\ DOMAIN r.body.by_status = {PENDING, IN_PROGRESS, COMPLETED}
              /\ \A st \in {PENDING, IN_PROGRESS, COMPLETED} :
                    r.body.by_status[st] =
                        Cardinality({i \in 1..Len(tasks_db) : tasks_db[i].status = st})
              /\ r.body.by_status[PENDING] + r.body.by_status[IN_PROGRESS]
                    + r.body.by_status[COMPLETED] = r.body.total

\* C8: after an accepted Create, a Get of the returned id is answered 200
\* with the record Create returned, equal in every field, and its status is
\* pending when the body held no status.
C8_GetAfterCreate ==
    \A body \in CreateBodies : \A t1 \in Now(MaxListClock) : \A t2 \in t1..MaxListClock :
        LET c == post_tasks(tasks_db, body, uuids + 1, t1, t2)
            g == get_task(c.db, c.body.id)
        IN  c.code = 201 =>
                /\ g.code = 200
                /\ g.body = c.body
                /\ g.body.id = uuids + 1
                /\ g.body.created_at = t1 /\ g.body.updated_at = t2
                /\ "status" \notin DOMAIN body => g.body.status = PENDING

\* a second task was created, without a status, while the first is stored
C8_Witness ==
    /\ Len(tasks_db) = 2
    /\ tasks_db[2].status = PENDING
    /\ tasks_db[2].updated_at > tasks_db[2].created_at
    /\ uuids = 2

\* what is left of db when the record with the given id is taken out
Without(db, task_id) ==
    LET keep == {i \in 1..Len(db) : db[i].id # task_id}
        nth(k) == CHOOSE i \in keep : Cardinality({j \in keep : j < i}) = k - 1
    IN  [k \in 1..Cardinality(keep) |-> db[nth(k)]]

Failed(r) == r.code \in {404, 422, 500}

C10_FailureChangesNothing ==
    /\ \A body \in CreateBodies : \A t1 \in Now(MaxListClock) : \A t2 \in t1..MaxListClock :
          LET r == post_tasks(tasks_db, body, uuids + 1, t1, t2)
          IN  /\ Failed(r) => r.db = tasks_db
              /\ r.code = 422 <=> ~TaskBase(body)
    /\ \A st \in StatusQueries, l \in LimitQueries, o \in OffsetQueries :
          get_tasks(tasks_db, st, l, o).db = tasks_db
    /\ \A task_id \in ListTaskIds :
          /\ get_task(tasks_db, task_id).db = tasks_db
          /\ get_task(tasks_db, task_id).code = 404 <=> task_id \notin Keys(tasks_db)
          /\ LET r == delete_task(tasks_db, task_id)
             IN  /\ Failed(r) => r.db = tasks_db
                 /\ r.code = 404 <=> task_id \notin Keys(tasks_db)
                 /\ r.code = 204 => r.db = Without(tasks_db, task_id)
          /\ \A body \in UpdateBodies : \A now \in Now(MaxListClock) :
                LET r == put_task(tasks_db, task_id, body, now)
                IN  /\ Failed(r) => r.db = tasks_db
                    /\ r.code = 422 <=> ~UpdateTask(body)
                    /\ r.code = 404 <=> UpdateTask(body) /\ task_id \notin Keys(tasks_db)
                    /\ r.code = 200 =>
                          /\ Keys(r.db) = Keys(tasks_db)
                          /\ Without(r.db, task_id) = Without(tasks_db, task_id)
    /\ get_stats(tasks_db).db = tasks_db

\* a step that changes the store adds one record with a fresh id, or removes
\* one record, or changes one record
C10_OnlySuccessChanges ==
    tasks_db' # tasks_db =>
        \/ /\ Len(tasks_db') = Len(tasks_db) + 1
           /\ tasks_db' = Append(tasks_db, tasks_db'[Len(tasks_db')])
           /\ tasks_db'[Len(tasks_db')].id = uuids + 1
           /\ uuids' = uuids + 1
        \/ \E task_id \in Keys(tasks_db) :
              /\ tasks_db' = Without(tasks_db, task_id)
              /\ deleted' = deleted \cup {task_id}
        \/ \E task_id \in Keys(tasks_db) :
              /\ Keys(tasks_db') = Keys(tasks_db)
              /\ Without(tasks_db', task_id) = Without(tasks_db, task_id)

\* C10: a request answered 404, 422 or 500 leaves the store as it was, and so
\* does every Get, List and Stats; only an accepted Create, Update or Delete
\* changes the store, an Update or Delete only the record with the given id.
C10_FailedRequestsChangeNothing ==
    []C10_FailureChangesNothing /\ [][C10_OnlySuccessChanges]_vars

\* a delete has been answered 204 and an update has changed one of the two
\* records that are left
C10_Witness ==
    /\ deleted = {2}
    /\ Keys(tasks_db) = {1, 3}
    /\ tasks_db[1].status = PENDING
    /\ tasks_db[2].status = COMPLETED

\* C5: for every status filter, limit in 1..100 and offset >= 0, List is
\* answered 200 with the elements at positions offset+1..offset+limit of the
\* list that holds exactly the stored records whose status is the filter (all
\* of them without a filter), newest created_at first; with limit 100 and
\* offset 0 that is every such record.
C5_ListFiltersSortsSlices ==
    \A status \in {None, Str("pending", 7), Str("in_progress", 11), Str("completed", 9)} :
        LET all == get_tasks(tasks_db, status, LimitMax, 0)
            want == Matching(tasks_db, status)
        IN  /\ all.code = 200
            /\ Len(all.body) = Cardinality(want)
            /\ \A i \in want : \E k \in 1..Len(all.body) : all.body[k] = tasks_db[i]
            /\ \A k \in 1..Len(all.body) - 1 :
                  all.body[k].created_at >= all.body[k + 1].created_at
            /\ \A limit \in {1, 2, 3, LimitDefault, LimitMax} : \A offset \in 0..4 :
                  LET page == get_tasks(tasks_db, status, limit, offset)
                      n == IF Len(all.body) - offset < 0 THEN 0
                           ELSE Min(limit, Len(all.body) - offset)
                  IN  /\ page.code = 200
                      /\ page.body = [k \in 1..n |-> all.body[offset + k]]

\* three tasks with three values of created_at are stored, one of them completed
C5_Witness ==
    /\ Len(tasks_db) = 3
    /\ tasks_db[1].created_at < tasks_db[2].created_at
    /\ tasks_db[2].created_at < tasks_db[3].created_at
    /\ tasks_db[2].status = COMPLETED
    /\ tasks_db[1].status = PENDING

\* C9: tasks with equal created_at are listed in the order they were created
\* (ids are issued in that order), whatever updates and deletes came between.
C9_TiesKeepInsertionOrder ==
    \A status \in {None, Str("pending", 7), Str("completed", 9)} :
        LET all == get_tasks(tasks_db, status, LimitMax, 0).body
        IN  \A k \in 1..Len(all) : \A l \in 1..Len(all) :
                (k < l /\ all[k].created_at = all[l].created_at) => all[k].id < all[l].id

\* tasks 1 and 3 were created at the same time, task 2 was deleted and task 1
\* was updated after task 3 was created
C9_Witness ==
    /\ Keys(tasks_db) = {1, 3}
    /\ deleted = {2}
    /\ tasks_db[1].created_at = tasks_db[2].created_at
    /\ tasks_db[1].updated_at > tasks_db[2].updated_at

C7_HandlersHoldTheLoop ==
    /\ \A s \in Slots :
          /\ inflight[s].pc \in {"insert", "checked", "read"} =>
                running = s /\ tasks_db = inflight[s].seen
          /\ inflight[s].pc = "done" => inflight[s].code \in {200, 201, 204, 404}
    /\ deleted \cap Keys(tasks_db) = {}

\* the step that ends the handler of slot s leaves the store and the status
\* code that the handler, run as one step on the store before, gives
C7_HandlerIsOneStep ==
    \A s \in Slots :
        LET a == inflight[s]
            b == inflight'[s]
            before == IF a.pc = "ready" THEN tasks_db ELSE a.seen
        IN  (a.pc \in {"ready", "insert", "checked", "read"} /\ b.pc = "done") =>
                /\ a.op = "create_task" =>
                      LET r == create_task(before, CreateTask(a.body), a.local.id,
                                           a.local.created_at, a.local.updated_at)
                      IN  r.code = b.code /\ r.db = tasks_db'
                /\ a.op = "update_task" =>
                      /\ \E now \in 0..MaxConcClock :
                            LET r == update_task(before, a.task_id, a.body, now)
                            IN  r.code = b.code /\ r.db = tasks_db'
                      /\ b.code = 200 =>
                            /\ a.task_id \in Keys(tasks_db')
                            /\ \A f \in DOMAIN a.body :
                                  GetItem(tasks_db', a.task_id)[f] = a.body[f]
                /\ a.op = "delete_task" =>
                      LET r == delete_task(before, a.task_id)
                      IN  r.code = b.code /\ r.db = tasks_db'

\* C7: with several requests in flight, the handler that runs holds the loop
\* from its existence check to its return and the store does not change under
\* it; no handler ends in an exception (a Delete never fails on a record its
\* check found); a deleted id is never in the store again (no Update
\* re-inserts it); and each handler's effect is that of the whole handler
\* run as one step, so that the fields an Update supplied are in the store
\* when it returns.
C7_HandlersAreAtomic == []C7_HandlersHoldTheLoop /\ [][C7_HandlerIsOneStep]_vars

\* an Update of task 1 has passed its existence check and holds the loop
\* while a Delete of task 1 and another Update of it are waiting
C7_Witness ==
    /\ inflight[1].pc = "read" /\ inflight[1].op = "update_task"
    /\ inflight[1].task_id = 1
    /\ inflight[2].pc = "ready" /\ inflight[2].op = "delete_task"
    /\ inflight[2].task_id = 1
    /\ running = 1

====
